---- MODULE Spec2Model ----
(***************************************************************************)
(* Model of pkg/email/sender.go: the e-mail connection-pool dispatcher     *)
(* (SEmailSender), its workers (sSender.Run) and the callers of Send.      *)
(***************************************************************************)
EXTENDS Integers, Sequences, FiniteSets, TLC

(* ---- bounds of the model ---- *)
senderNum == 1
chanelSize == 1
NumMsgs == 2
MaxUpdates == 3
MaxGens == 2

(* ---- program constants ---- *)
ResultCap == 1
CloseFailedLimit == 2

HOSTNAME == "hostname"
HOSTPORT == "hostport"
USERNAME == "username"
PASSWORD == "password"
SSL == "ssl"
GLOBALSSL == "global_ssl"

Callers == 1..NumMsgs
Slots == 1..senderNum
Workers == (1..MaxGens) \X Slots

(* the settings maps handed to UpdateConfig, as sets of <<key, value>> *)
CompleteA == {<<HOSTNAME, "a">>, <<HOSTPORT, "25">>, <<USERNAME, "u">>, <<PASSWORD, "p">>}
CompleteB == {<<HOSTNAME, "b">>, <<HOSTPORT, "25">>, <<USERNAME, "u">>, <<PASSWORD, "p">>, <<SSL, "true">>}
NoPassword == {<<HOSTNAME, "a">>, <<HOSTPORT, "25">>, <<USERNAME, "u">>}
Settings == {CompleteA, CompleteB, NoPassword}

VARIABLES
  configCache,      \* SEmailSender.configCache: set of <<key, value>>
  msgChan,          \* SEmailSender.msgChan: 0 = nil, else the identity of the channel
  queue,            \* the SendUnits buffered in msgChan (a unit is named by its caller)
  senders,          \* SEmailSender.senders: per slot, the generation whose stopC the copy holds (0 = nil stopC)
  gen,              \* number of worker sets spawned so far
  wpc,              \* per worker goroutine: "none", "select", "dial", "send", "blocked", "exited"
  open,             \* sSender.open
  closeFailedTimes, \* sSender.closeFailedTimes
  cur,              \* the unit a worker is handling (0 = none)
  live,             \* connections a worker dialed that have not been closed
  stopC,            \* sSender.stopC: "open" or "closed"
  pc,               \* per caller of Send: "idle", "nilblock", "enqueue", "wait", "done"
  ret,              \* what Send returned: "none", "nil", "send error", "send error, time out"
  result,           \* sSendUnit.result: the buffered values of the unit's channel
  signals,          \* history: number of `msg.result <- x` statements executed for the unit
  sendCount,        \* history: number of gomail.Send calls made with the unit's message
  sentOk,           \* history: gomail.Send succeeded for the unit's message
  deqCount,         \* history: number of times the unit was received from msgChan
  handled,          \* history: the worker that dequeued the unit is back at the top of its loop
  enqCount,         \* history: number of times the unit was pushed onto msgChan
  survived,         \* history: the unit was in the queue when a restart ran
  waited,           \* history: the Send found the queue full and had to block on its push
  transportFailed,  \* history: some dial, send or close failed
  dialSucceeded,    \* history: some dial succeeded
  chanMade,         \* history: number of make(chan *sSendUnit) executed
  updates,          \* history: number of UpdateConfig calls
  updArg,           \* history: the settings the last UpdateConfig was called with
  updRet,           \* what the last UpdateConfig returned: "none", "nil", "ConfigMissing", "panic"
  panicked,         \* the process died of a run-time panic
  valIn,            \* the settings the last ValidateConfig was called with
  valOut,           \* what the last ValidateConfig returned, and whether it dialed
  deqOpen,          \* history: the unit was received by a worker whose open flag was set
  closeRun,         \* history: close failures of the worker since its last dial or successful close
  staleDeq,         \* history: a worker of an earlier set received a unit after a later set was started
  lateReport        \* history: a worker reported on a unit whose Send had already returned

vars == <<configCache, msgChan, queue, senders, gen, wpc, open, closeFailedTimes, cur, live,
          stopC, pc, ret, result, signals, sendCount, sentOk, deqCount, handled, enqCount,
          survived, waited, transportFailed, dialSucceeded, chanMade, updates, updArg, updRet, panicked, valIn, valOut,
          deqOpen, closeRun, staleDeq, lateReport>>

workerVars == <<wpc, open, closeFailedTimes, cur, live>>
callerVars == <<pc, ret>>
unitHist == <<signals, sendCount, sentOk, deqCount, handled, enqCount, survived, waited>>
poolVars == <<configCache, msgChan, senders, gen, stopC, chanMade, updates, updArg, updRet, panicked>>
valVars == <<valIn, valOut>>
workHist == <<deqOpen, closeRun, staleDeq, lateReport>>

(* ---- the config store (yunion.io/x/notify-plugins/pkg/common) ---- *)
Clean(cache) == {}

BatchSet(cache, configs) == {kv \in cache : \A n \in configs : n[1] # kv[1]} \cup configs

Get(cache, key) == IF \E kv \in cache : kv[1] = key
                   THEN [val |-> (CHOOSE kv \in cache : kv[1] = key)[2], ok |-> TRUE]
                   ELSE [val |-> "", ok |-> FALSE]

RECURSIVE BatchGet(_, _)
BatchGet(cache, keys) ==
  IF keys = <<>> THEN [ok |-> TRUE, noKey |-> ""]
  ELSE IF ~Get(cache, Head(keys)).ok THEN [ok |-> FALSE, noKey |-> Head(keys)]
  ELSE BatchGet(cache, Tail(keys))

(* IsReady answering whether the last UpdateConfig succeeded *)
IsReadyLastOk == msgChan # 0 /\ updRet = "nil"

(* ---- SEmailSender.IsReady ---- *)
IsReady == msgChan # 0

(* ---- NewSender ---- *)
Init ==
  /\ configCache = {}
  /\ msgChan = 0
  /\ queue = <<>>
  /\ senders = [i \in Slots |-> 0]
  /\ gen = 0
  /\ wpc = [w \in Workers |-> "none"]
  /\ open = [w \in Workers |-> FALSE]
  /\ closeFailedTimes = [w \in Workers |-> 0]
  /\ cur = [w \in Workers |-> 0]
  /\ live = [w \in Workers |-> 0]
  /\ stopC = [w \in Workers |-> "open"]
  /\ pc = [c \in Callers |-> "idle"]
  /\ ret = [c \in Callers |-> "none"]
  /\ result = [c \in Callers |-> <<>>]
  /\ signals = [c \in Callers |-> 0]
  /\ sendCount = [c \in Callers |-> 0]
  /\ sentOk = [c \in Callers |-> FALSE]
  /\ deqCount = [c \in Callers |-> 0]
  /\ handled = [c \in Callers |-> FALSE]
  /\ enqCount = [c \in Callers |-> 0]
  /\ survived = [c \in Callers |-> FALSE]
  /\ waited = [c \in Callers |-> FALSE]
  /\ transportFailed = FALSE
  /\ dialSucceeded = FALSE
  /\ chanMade = 0
  /\ updates = 0
  /\ updArg = {}
  /\ updRet = "none"
  /\ panicked = FALSE
  /\ valIn = {}
  /\ valOut = [called |-> FALSE, isValid |-> FALSE, msg |-> <<>>, err |-> <<>>, dialed |-> FALSE,
               ssl |-> FALSE]
  /\ deqOpen = [c \in Callers |-> FALSE]
  /\ closeRun = [w \in Workers |-> 0]
  /\ staleDeq = FALSE
  /\ lateReport = FALSE

(* ---- sSender.stop, applied to the copy held in a slot ---- *)
(* sc is the state of the stop channels; the result is the new state and  *)
(* whether close() panicked (close of a closed channel).                   *)
stop(sc, i) ==
  IF senders[i] = 0 THEN [stopC |-> sc, panic |-> FALSE]
  ELSE IF sc[<<senders[i], i>>] = "closed" THEN [stopC |-> sc, panic |-> TRUE]
  ELSE [stopC |-> [sc EXCEPT ![<<senders[i], i>>] = "closed"], panic |-> FALSE]

(* the loop of restartSender over self.senders, from slot i on *)
RECURSIVE stopFrom(_, _)
stopFrom(sc, i) ==
  IF i > senderNum THEN [stopC |-> sc, panic |-> FALSE]
  ELSE LET r == stop(sc, i) IN
       IF r.panic THEN r ELSE stopFrom(r.stopC, i + 1)

(* initSender making a channel on every restart *)
alwaysMakesChan(ch) == TRUE

(* `if self.msgChan == nil`: does initSender make a channel? *)
initMakesChan(ch) == ch = 0

(* an UpdateConfig that sets the new pairs without cleaning the store first *)
storeWithoutClean(cache, configs) == BatchSet(cache, configs)

(* `self.configCache.Clean(); self.configCache.BatchSet(configs)` *)
storeAfterUpdate(cache, configs) == BatchSet(Clean(cache), configs)

(* ---- SEmailSender.UpdateConfig -> restartSender -> initSender ---- *)
UpdateConfig(configs) ==
  /\ ~panicked
  /\ updates < MaxUpdates
  /\ BatchGet(configs, <<HOSTNAME, PASSWORD, USERNAME, HOSTPORT>>).ok => gen < MaxGens
  /\ updates' = updates + 1
  /\ updArg' = configs
  /\ configCache' = storeAfterUpdate(configCache, configs)
  /\ LET stopped == stopFrom(stopC, 1)
         got == BatchGet(configCache', <<HOSTNAME, PASSWORD, USERNAME, HOSTPORT>>)
     IN IF stopped.panic
        THEN /\ panicked' = TRUE
             /\ updRet' = "panic"
             /\ stopC' = stopped.stopC
             /\ UNCHANGED <<msgChan, queue, chanMade, senders, gen, wpc, open, closeFailedTimes>>
        ELSE IF ~got.ok
        THEN /\ updRet' = "ConfigMissing"
             /\ stopC' = stopped.stopC
             /\ UNCHANGED <<msgChan, queue, chanMade, senders, gen, wpc, open, closeFailedTimes, panicked>>
        ELSE /\ updRet' = "nil"
             /\ IF initMakesChan(msgChan)
                THEN /\ msgChan' = chanMade + 1
                     /\ chanMade' = chanMade + 1
                     /\ queue' = <<>>
                ELSE UNCHANGED <<msgChan, chanMade, queue>>
             /\ gen' = gen + 1
             /\ senders' = [i \in Slots |-> gen + 1]
             /\ stopC' = [w \in Workers |-> IF w[1] = gen + 1 THEN "open" ELSE stopped.stopC[w]]
             /\ wpc' = [w \in Workers |-> IF w[1] = gen + 1 THEN "select" ELSE wpc[w]]
             /\ open' = [w \in Workers |-> IF w[1] = gen + 1 THEN FALSE ELSE open[w]]
             /\ closeFailedTimes' = [w \in Workers |-> IF w[1] = gen + 1 THEN 0 ELSE closeFailedTimes[w]]
             /\ UNCHANGED panicked
  /\ survived' = [u \in Callers |-> survived[u] \/ \E k \in 1..Len(queue) : queue[k] = u]
  /\ UNCHANGED <<valVars, workHist, cur, live, pc, ret, result, signals, sendCount, sentOk, deqCount, handled,
                 enqCount, waited, transportFailed, dialSucceeded>>

(* ---- SEmailSender.send: the caller's side ---- *)
(* a channel that takes a push whatever it holds *)
hasRoomAlways(q) == TRUE

(* a push onto the buffered channel completes only while the buffer has room *)
hasRoom(q) == Len(q) < chanelSize

(* `ret := make(chan bool, 1); self.msgChan <- &sSendUnit{gmsg, ret}`: the send   *)
(* statement blocks for ever on a nil channel, blocks while the buffer is   *)
(* full, and completes at once otherwise.                                   *)
CallSend(c) ==
  /\ ~panicked
  /\ pc[c] = "idle"
  /\ IF msgChan = 0
     THEN /\ pc' = [pc EXCEPT ![c] = "nilblock"]
          /\ UNCHANGED <<queue, enqCount, waited>>
     ELSE IF hasRoom(queue)
     THEN /\ queue' = Append(queue, c)
          /\ enqCount' = [enqCount EXCEPT ![c] = @ + 1]
          /\ pc' = [pc EXCEPT ![c] = "wait"]
          /\ UNCHANGED waited
     ELSE /\ pc' = [pc EXCEPT ![c] = "enqueue"]
          /\ waited' = [waited EXCEPT ![c] = TRUE]
          /\ UNCHANGED <<queue, enqCount>>
  /\ UNCHANGED <<valVars, workHist, poolVars, workerVars, ret, result, signals, sendCount, sentOk, deqCount, handled,
                 survived, transportFailed, dialSucceeded>>

(* a Send blocked on the full queue completes its `self.msgChan <- unit` *)
Enqueue(c) ==
  /\ ~panicked
  /\ pc[c] = "enqueue"
  /\ hasRoom(queue)
  /\ queue' = Append(queue, c)
  /\ enqCount' = [enqCount EXCEPT ![c] = @ + 1]
  /\ pc' = [pc EXCEPT ![c] = "wait"]
  /\ UNCHANGED <<valVars, workHist, poolVars, workerVars, ret, result, signals, sendCount, sentOk, deqCount, handled,
                 survived, waited, transportFailed, dialSucceeded>>

(* what send returns for a value read from ret *)
sendResult(suc) == IF suc THEN "nil" ELSE "send error"

(* `case suc := <-ret` *)
Receive(c) ==
  /\ ~panicked
  /\ pc[c] = "wait"
  /\ result[c] # <<>>
  /\ ret' = [ret EXCEPT ![c] = sendResult(Head(result[c]))]
  /\ result' = [result EXCEPT ![c] = Tail(@)]
  /\ pc' = [pc EXCEPT ![c] = "done"]
  /\ UNCHANGED <<valVars, workHist, poolVars, queue, workerVars, unitHist, transportFailed, dialSucceeded>>

(* `case <-timer.C`: the timer may have fired by the time the result is there, *)
(* and select then picks either case                                         *)
Timeout(c) ==
  /\ ~panicked
  /\ pc[c] = "wait"
  /\ ret' = [ret EXCEPT ![c] = "send error, time out"]
  /\ pc' = [pc EXCEPT ![c] = "done"]
  /\ UNCHANGED <<valVars, workHist, poolVars, queue, workerVars, result, unitHist, transportFailed, dialSucceeded>>

(* ---- sSender.Run: the worker's side ---- *)
(* does a worker that received a message go on to dial and send it? *)
serves(isOpen) == ~isOpen

(* `case msg, ok := <-self.man.msgChan` *)
Dequeue(w) ==
  /\ ~panicked
  /\ wpc[w] = "select"
  /\ queue # <<>>
  /\ LET u == Head(queue) IN
       /\ queue' = Tail(queue)
       /\ deqCount' = [deqCount EXCEPT ![u] = @ + 1]
       /\ deqOpen' = [deqOpen EXCEPT ![u] = @ \/ open[w]]
       /\ staleDeq' = (staleDeq \/ w[1] < gen)
       /\ IF serves(open[w])
          THEN /\ wpc' = [wpc EXCEPT ![w] = "dial"]
               /\ cur' = [cur EXCEPT ![w] = u]
               /\ UNCHANGED handled
          ELSE /\ handled' = [handled EXCEPT ![u] = TRUE]
               /\ UNCHANGED <<wpc, cur>>
  /\ UNCHANGED <<valVars, closeRun, lateReport, poolVars, open, closeFailedTimes, live, callerVars,
                 result, signals, sendCount, sentOk, enqCount, survived, waited, transportFailed, dialSucceeded>>

(* `msg.result <- v`: the values buffered in the channel afterwards *)
push(ch, v) == IF Len(ch) < ResultCap THEN Append(ch, v) ELSE ch

(* a worker reporting on a result channel made without a buffer: it waits for *)
(* the caller's receive                                                      *)
afterSignalUnbuffered(ch) == IF Len(ch) < ResultCap - 1 THEN "select" ELSE "blocked"

(* where the worker is after `msg.result <- v; continue Loop` *)
afterSignal(ch) == IF Len(ch) < ResultCap THEN "select" ELSE "blocked"

(* a worker that pushes a failed unit back onto the queue *)
requeueAfterFailure(q, u) == IF Len(q) < chanelSize THEN Append(q, u) ELSE q

(* the queue after `msg.result <- false; continue Loop`: the unit is not pushed back *)
afterFailure(q, u) == q

(* a worker that sets its open flag before looking at Dial's error *)
openBeforeDialChecked(ok, was) == TRUE

(* the open flag after `self.sender, err = self.dialer.Dial()` and its error branch *)
openAfterDial(ok, was) == IF ok THEN TRUE ELSE was

(* `self.sender, err = self.dialer.Dial()` *)
Dial(w) ==
  /\ ~panicked
  /\ wpc[w] = "dial"
  /\ LET u == cur[w] IN
     \E ok \in BOOLEAN :
       /\ open' = [open EXCEPT ![w] = openAfterDial(ok, @)]
       /\ IF ok
          THEN
            /\ live' = [live EXCEPT ![w] = @ + 1]
            /\ wpc' = [wpc EXCEPT ![w] = "send"]
            /\ dialSucceeded' = TRUE
            /\ closeRun' = [closeRun EXCEPT ![w] = 0]
            /\ UNCHANGED <<queue, cur, result, signals, handled, transportFailed, lateReport>>
          ELSE
            /\ transportFailed' = TRUE
            /\ result' = [result EXCEPT ![u] = push(@, FALSE)]
            /\ signals' = [signals EXCEPT ![u] = @ + 1]
            /\ wpc' = [wpc EXCEPT ![w] = afterSignal(result[u])]
            /\ handled' = [handled EXCEPT ![u] = wpc'[w] = "select"]
            /\ cur' = [cur EXCEPT ![w] = IF wpc'[w] = "select" THEN 0 ELSE u]
            /\ queue' = afterFailure(queue, u)
            /\ lateReport' = (lateReport \/ pc[u] = "done")
            /\ UNCHANGED <<live, dialSucceeded, closeRun>>
  /\ UNCHANGED <<valVars, deqOpen, staleDeq, poolVars, closeFailedTimes, callerVars, sendCount, sentOk, deqCount, enqCount,
                 survived, waited>>

(* a worker that reports success whatever gomail.Send returned *)
reportedAlways(ok) == TRUE

(* the value reported for a transport send that returned err == nil (ok) or an error *)
reported(ok) == ok

(* a worker that keeps its open flag when gomail.Send fails *)
openKeptAfterSend(ok, was) == was

(* the open flag after `gomail.Send(self.sender, msg.message)` and its error branch *)
openAfterSend(ok, was) == IF ok THEN was ELSE FALSE

(* `gomail.Send(self.sender, msg.message)` *)
SendMail(w) ==
  /\ ~panicked
  /\ wpc[w] = "send"
  /\ LET u == cur[w] IN
     \E ok \in BOOLEAN :
       /\ sendCount' = [sendCount EXCEPT ![u] = @ + 1]
       /\ sentOk' = [sentOk EXCEPT ![u] = @ \/ ok]
       /\ open' = [open EXCEPT ![w] = openAfterSend(ok, @)]
       /\ transportFailed' = (transportFailed \/ ~ok)
       /\ result' = [result EXCEPT ![u] = push(@, reported(ok))]
       /\ signals' = [signals EXCEPT ![u] = @ + 1]
       /\ wpc' = [wpc EXCEPT ![w] = afterSignal(result[u])]
       /\ handled' = [handled EXCEPT ![u] = wpc'[w] = "select"]
       /\ cur' = [cur EXCEPT ![w] = IF wpc'[w] = "select" THEN 0 ELSE u]
       /\ queue' = IF ok THEN queue ELSE afterFailure(queue, u)
       /\ lateReport' = (lateReport \/ pc[u] = "done")
  /\ UNCHANGED <<valVars, deqOpen, closeRun, staleDeq, poolVars, closeFailedTimes, live, callerVars, deqCount, enqCount, survived, waited,
                 dialSucceeded>>

(* a worker that marks its connection closed when it is stopped *)
closedAfterStop(was) == FALSE

(* the open flag after `case <-self.stopC: break Loop` *)
openAfterStop(was) == was

(* `case <-self.stopC` *)
StopCase(w) ==
  /\ ~panicked
  /\ wpc[w] = "select"
  /\ stopC[w] = "closed"
  /\ wpc' = [wpc EXCEPT ![w] = "exited"]
  /\ open' = [open EXCEPT ![w] = openAfterStop(@)]
  /\ UNCHANGED <<valVars, workHist, poolVars, queue, closeFailedTimes, cur, live, callerVars, result, unitHist,
                 transportFailed, dialSucceeded>>

(* `case <-time.After(30 * time.Second)` with self.open (with the connection  *)
(* not open the case does nothing); select picks any case that is ready      *)
IdleClose(w) ==
  /\ ~panicked
  /\ wpc[w] = "select"
  /\ open[w]
  /\ \E ok \in BOOLEAN :
       IF ok
       THEN /\ open' = [open EXCEPT ![w] = FALSE]
            /\ live' = [live EXCEPT ![w] = IF @ > 0 THEN @ - 1 ELSE 0]
            /\ closeRun' = [closeRun EXCEPT ![w] = 0]
            /\ UNCHANGED <<closeFailedTimes, transportFailed>>
       ELSE /\ transportFailed' = TRUE
            /\ closeRun' = [closeRun EXCEPT ![w] = @ + 1]
            /\ IF closeFailedTimes[w] > CloseFailedLimit
               THEN /\ closeFailedTimes' = [closeFailedTimes EXCEPT ![w] = 0]
                    /\ open' = [open EXCEPT ![w] = FALSE]
               ELSE /\ closeFailedTimes' = [closeFailedTimes EXCEPT ![w] = @ + 1]
                    /\ UNCHANGED open
            /\ UNCHANGED live
  /\ UNCHANGED <<valVars, deqOpen, staleDeq, lateReport, poolVars, queue, wpc, cur, callerVars, result,
                 unitHist, dialSucceeded>>

Next ==
  \/ \E configs \in Settings : UpdateConfig(configs)
  \/ \E c \in Callers : CallSend(c)
  \/ \E c \in Callers : Enqueue(c)
  \/ \E c \in Callers : Receive(c)
  \/ \E c \in Callers : Timeout(c)
  \/ \E w \in Workers : Dequeue(w)
  \/ \E w \in Workers : Dial(w)
  \/ \E w \in Workers : SendMail(w)
  \/ \E w \in Workers : StopCase(w)
  \/ \E w \in Workers : IdleClose(w)

Spec == Init /\ [][Next]_vars

(* ---- ValidateConfig: the trial connection, outside the pool ---- *)
(* Texts (messages and error texts) are sequences of words, the empty      *)
(* sequence being "" or a nil error; a hostport value is a sequence of      *)
(* characters.                                                              *)
Digits == <<"0", "1", "2", "3", "4", "5", "6", "7", "8", "9">>
IsDigit(ch) == \E d \in 1..10 : Digits[d] = ch
DigitVal(ch) == (CHOOSE d \in 1..10 : Digits[d] = ch) - 1

RECURSIVE DigitsVal(_)
DigitsVal(str) == IF str = <<>> THEN 0
                  ELSE 10 * DigitsVal(SubSeq(str, 1, Len(str) - 1)) + DigitVal(str[Len(str)])

(* strconv.Atoi: an optional sign, then one or more decimal digits *)
Atoi(str) ==
  LET signed == Len(str) > 0 /\ str[1] \in {"+", "-"}
      body == IF signed THEN Tail(str) ELSE str
  IN IF body # <<>> /\ \A k \in 1..Len(body) : IsDigit(body[k])
     THEN [val |-> IF signed /\ str[1] = "-" THEN 0 - DigitsVal(body) ELSE DigitsVal(body), ok |-> TRUE]
     ELSE [val |-> 0, ok |-> FALSE]

(* strings.Contains on texts *)
Contains(text, pat) ==
  \E k \in 0..(Len(text) - Len(pat)) : SubSeq(text, k + 1, k + Len(pat)) = pat

(* common.CheckMap: the values of the keys, or the first key that is missing *)
RECURSIVE CheckMap(_, _)
CheckMap(configs, keys) ==
  IF keys = <<>> THEN [vals |-> <<>>, ok |-> TRUE, noKey |-> ""]
  ELSE IF ~Get(configs, Head(keys)).ok THEN [vals |-> <<>>, ok |-> FALSE, noKey |-> Head(keys)]
  ELSE LET rest == CheckMap(configs, Tail(keys)) IN
       IF rest.ok THEN [vals |-> <<Get(configs, Head(keys)).val>> \o rest.vals, ok |-> TRUE, noKey |-> ""]
       ELSE rest

(* what the trial dial can end with: nil, or an error text *)
DialErrors == {<<>>,
               <<"535 Error", "authentication", "failed">>,
               <<"dial", "tcp", "i/o", "timeout">>,
               <<"dial", "tcp", "lookup", "no such host">>,
               <<"connection", "refused">>}

(* validateConfig: the dial's result, or "timeout" when the 10 s ticker wins *)
validateConfigErr(dialErr, tickerFirst) == IF tickerFirst THEN <<"timeout">> ELSE dialErr

(* a missing-key error that always names the first required key *)
requireFirstKey(noKey) == <<"require", HOSTNAME>>

(* `fmt.Errorf("require %s", noKey)` *)
requireErr(noKey) == <<"require", noKey>>

(* the human message for a failed trial dial *)
classify(err) ==
  IF Contains(err, <<"535 Error">>) THEN <<"Authentication", "failed">>
  ELSE IF Contains(err, <<"timeout">>) THEN <<"Connect", "timeout">>
  ELSE IF Contains(err, <<"no such host">>) THEN <<"No", "such", "host">>
  ELSE err

(* ValidateConfig(ctx, configs) -> (isValid, msg, err), with the outcome of the dial *)
ValidateConfig(configs, dialErr, tickerFirst) ==
  LET chk == CheckMap(configs, <<HOSTNAME, HOSTPORT, USERNAME, PASSWORD>>) IN
  IF ~chk.ok
  THEN [called |-> TRUE, isValid |-> FALSE, msg |-> <<>>, err |-> requireErr(chk.noKey),
        dialed |-> FALSE, ssl |-> FALSE]
  ELSE IF ~Atoi(chk.vals[2]).ok
  THEN [called |-> TRUE, isValid |-> FALSE, msg |-> <<>>,
        err |-> <<"invalid", "hostport">> \o chk.vals[2], dialed |-> FALSE, ssl |-> FALSE]
  ELSE LET ssl == Get(configs, GLOBALSSL).val = "true" \/ Get(configs, SSL).val = "true"
           err == validateConfigErr(dialErr, tickerFirst)
       IN IF err = <<>>
          THEN [called |-> TRUE, isValid |-> TRUE, msg |-> <<>>, err |-> <<>>, dialed |-> TRUE,
                ssl |-> ssl]
          ELSE [called |-> TRUE, isValid |-> FALSE, msg |-> classify(err), err |-> <<>>,
                dialed |-> TRUE, ssl |-> ssl]

(* the settings maps handed to ValidateConfig *)
ValPairs == {<<HOSTNAME, "smtp.example.com">>,
             <<HOSTPORT, <<"5", "8", "7">>>>, <<HOSTPORT, <<"2", "5">>>>, <<HOSTPORT, <<"x">>>>,
             <<USERNAME, "u">>, <<PASSWORD, "p">>, <<SSL, "true">>, <<GLOBALSSL, "true">>}
ValInputs == {cfg \in SUBSET ValPairs : \A a, b \in cfg : a[1] = b[1] => a = b}

Validate(configs, dialErr, tickerFirst) ==
  /\ valIn' = configs
  /\ valOut' = ValidateConfig(configs, dialErr, tickerFirst)
  /\ UNCHANGED <<workHist, poolVars, queue, workerVars, callerVars, result, unitHist, transportFailed,
                 dialSucceeded>>

ValNext == \E configs \in ValInputs, dialErr \in DialErrors, tickerFirst \in BOOLEAN :
             Validate(configs, dialErr, tickerFirst)

ValidateSpec == Init /\ [][ValNext]_vars

(* the scheduler runs every goroutine that can take a step, timers fire and *)
(* transport calls return; calls of UpdateConfig and Send are up to the     *)
(* environment.                                                             *)
FairSpec ==
  /\ Spec
  /\ \A c \in Callers : WF_vars(Enqueue(c) \/ Receive(c) \/ Timeout(c))
  /\ \A w \in Workers : WF_vars(Dequeue(w) \/ Dial(w) \/ SendMail(w) \/ StopCase(w))

(* the scheduler runs every worker goroutine that can take a step; nothing is *)
(* assumed of the callers                                                    *)
WorkerFairSpec ==
  /\ Spec
  /\ \A w \in Workers : WF_vars(Dequeue(w) \/ Dial(w) \/ SendMail(w) \/ StopCase(w))

(* ---- helpers of the properties ---- *)
Required == <<HOSTNAME, PASSWORD, USERNAME, HOSTPORT>>
InQueue(u) == \E k \in 1..Len(queue) : queue[k] = u
Occurrences(u) == Cardinality({k \in 1..Len(queue) : queue[k] = u})
Holders(u) == {w \in Workers : cur[w] = u}
TrueSignalled(u) == result[u] = <<TRUE>> \/ ret[u] = "nil"
FalseSignalled(u) == result[u] = <<FALSE>> \/ ret[u] = "send error"

(* C1: every SendUnit a worker has dequeued and finished with (the worker is *)
(* back at the top of its loop) had its result channel signalled exactly     *)
(* once, and no unit is ever signalled twice, whatever the worker's state    *)
(* at the dequeue and whatever became of the caller's wait.                  *)
C1_SignalledExactlyOnce ==
  \A u \in Callers : signals[u] <= 1 /\ (handled[u] => signals[u] = 1)

(* C2: every call of Send returns: a caller that has entered Send eventually *)
(* reaches its return (unless the process dies first), in every reachable    *)
(* state of the dispatcher.                                                  *)
C2_SendReturns ==
  \A c \in Callers : (pc[c] # "idle") ~> (pc[c] = "done" \/ panicked)

(* C3: while no dial, send or close has failed, every message a worker of a  *)
(* started pool has finished with was handed to the transport's send once    *)
(* and was reported as a success, so that its Send returns nil.              *)
C3_AllDelivered ==
  ~transportFailed =>
    \A u \in Callers : handled[u] => sendCount[u] = 1 /\ sentOk[u] /\ TrueSignalled(u)

(* C4: Send returns nil only after a worker signalled true for its unit, and *)
(* true is signalled only after the transport send of that unit succeeded on *)
(* a connection the worker dialed; while no dial has succeeded no Send has   *)
(* returned nil, and every unit a worker finished with was reported failed.  *)
C4_NoFalseSuccess ==
  /\ \A u \in Callers :
       /\ ret[u] = "nil" => sentOk[u] /\ signals[u] = 1
       /\ (result[u] # <<>> /\ Head(result[u])) => sentOk[u]
       /\ sentOk[u] => dialSucceeded /\ sendCount[u] >= 1
       /\ pc[u] = "done" <=> ret[u] \in {"nil", "send error", "send error, time out"}
  /\ \A w \in Workers : wpc[w] = "send" => open[w] /\ live[w] >= 1
  /\ ~dialSucceeded =>
       \A u \in Callers : /\ ret[u] # "nil"
                          /\ handled[u] => FalseSignalled(u)

C4_Witness ==
  \E u, v \in Callers : /\ ret[u] = "nil"
                        /\ ret[v] = "send error"
                        /\ sendCount[v] = 0

(* C5: the stop signalling of a restart never crashes, whatever UpdateConfig *)
(* calls came before it.                                                      *)
C5_StopNeverCrashes == ~panicked

(* C6: an UpdateConfig whose settings lack a required key returns            *)
(* ConfigMissing, has signalled every worker of the previous pool, spawns no *)
(* worker and leaves the queue alone; an UpdateConfig with complete settings *)
(* that follows a failed one returns nil and starts a fresh worker set.      *)
C6_MissingKeyThenRecover ==
  [][updates' = updates + 1 =>
       /\ ~BatchGet(configCache', Required).ok =>
            /\ updRet' = "ConfigMissing"
            /\ \A i \in Slots : senders[i] # 0 => stopC'[<<senders[i], i>>] = "closed"
            /\ gen' = gen /\ wpc' = wpc /\ senders' = senders
            /\ msgChan' = msgChan /\ chanMade' = chanMade /\ queue' = queue
       /\ (BatchGet(configCache', Required).ok /\ updRet = "ConfigMissing") =>
            /\ updRet' = "nil"
            /\ gen' = gen + 1
            /\ \A i \in Slots : /\ senders'[i] = gen'
                                /\ wpc'[<<gen', i>>] = "select"
                                /\ stopC'[<<gen', i>>] = "open"
                                /\ ~open'[<<gen', i>>]]_vars

(* C7: IsReady is true exactly when some UpdateConfig passed the required-   *)
(* key check; a failed UpdateConfig leaves it as it was, a successful one    *)
(* makes it true, and no step makes it false again.                          *)
C7_IsReady ==
  /\ [](IsReady <=> gen > 0)
  /\ [](updates = 0 => ~IsReady)
  /\ [][/\ IsReady => IsReady'
        /\ (updates' = updates + 1 /\ updRet' = "ConfigMissing") => (IsReady' <=> IsReady)
        /\ (updates' = updates + 1 /\ updRet' = "nil") => IsReady']_vars

C7_Witness ==
  IsReady /\ updRet = "ConfigMissing" /\ updates >= 2 /\ \E c \in Callers : pc[c] = "done"

(* C8: the queue is made at most once and never replaced, and an             *)
(* UpdateConfig, successful or failed, leaves the queued units as they were. *)
C8_QueueKept ==
  /\ [](chanMade <= 1 /\ msgChan = chanMade)
  /\ [][/\ msgChan # 0 => msgChan' = msgChan
        /\ (updates' = updates + 1 /\ ~panicked') => (msgChan # 0 => queue' = queue)
        /\ \A u \in Callers : (InQueue(u) /\ ~InQueue(u)') => deqCount'[u] = deqCount[u] + 1]_vars

C8_Witness ==
  \E u \in Callers : survived[u] /\ InQueue(u) /\ gen >= 2 /\ updRet = "nil"

(* C9: a unit is pushed at most once, received by at most one worker, handed *)
(* to the transport's send at most once, and once its worker has finished    *)
(* with it (dial failure and send failure included) it is neither queued nor *)
(* held by any worker.                                                       *)
C9_AtMostOnce ==
  \A u \in Callers :
    /\ enqCount[u] <= 1 /\ deqCount[u] <= 1 /\ sendCount[u] <= 1
    /\ Occurrences(u) + Cardinality(Holders(u)) <= 1
    /\ deqCount[u] = 1 => ~InQueue(u)
    /\ handled[u] => ~InQueue(u) /\ Holders(u) = {}

C9_Witness ==
  \E u, v \in Callers :
    /\ handled[u] /\ sendCount[u] = 1 /\ ~sentOk[u]
    /\ handled[v] /\ sendCount[v] = 0 /\ signals[v] = 1

(* C10: the queue never holds more units than its capacity; a Send starts    *)
(* to block on its push only when the queue is full, stays blocked as long   *)
(* as the queue is full, and its push completes into a queue that had room.  *)
C10_Backpressure ==
  /\ [](Len(queue) <= chanelSize)
  /\ [](\A c \in Callers : pc[c] = "enqueue" => ~InQueue(c) /\ result[c] = <<>> /\ ret[c] = "none")
  /\ [][\A c \in Callers :
          /\ (pc[c] = "idle" /\ pc'[c] = "enqueue") => Len(queue) = chanelSize
          /\ (pc[c] = "enqueue" /\ Len(queue) = chanelSize) => pc'[c] = "enqueue"
          /\ (pc[c] = "enqueue" /\ pc'[c] # "enqueue") =>
                /\ Len(queue) < chanelSize
                /\ pc'[c] = "wait"
                /\ queue' = Append(queue, c)
          /\ (pc[c] # "wait" /\ pc'[c] = "wait") => queue' = Append(queue, c)]_vars

C10_Witness ==
  \E c, d \in Callers : /\ waited[c] /\ pc[c] = "wait" /\ InQueue(c)
                        /\ deqCount[d] = 1 /\ \E w \in Workers : cur[w] = d

(* C11: every UpdateConfig call, whether it returns nil or an error, leaves  *)
(* the config store holding exactly the pairs it was called with: no pair of *)
(* an earlier configuration is left over and nothing is rolled back.         *)
C11_StoreReplaced ==
  /\ [](configCache = updArg)
  /\ [][updates' = updates + 1 =>
          /\ configCache' = updArg'
          /\ \A kv \in configCache : kv \notin updArg' => kv \notin configCache']_vars

C11_Witness ==
  /\ updates >= 2
  /\ updRet = "ConfigMissing"
  /\ gen >= 1
  /\ configCache = NoPassword

(* the first of the required keys, in the order ValidateConfig asks for them, *)
(* that the settings lack                                                     *)
ValRequired == <<HOSTNAME, HOSTPORT, USERNAME, PASSWORD>>
Lacks(configs, key) == \A kv \in configs : kv[1] # key
FirstLacking(configs) ==
  ValRequired[CHOOSE k \in 1..Len(ValRequired) :
                /\ Lacks(configs, ValRequired[k])
                /\ \A j \in 1..(k - 1) : ~Lacks(configs, ValRequired[j])]
LacksRequired(configs) == \E k \in 1..Len(ValRequired) : Lacks(configs, ValRequired[k])

(* C12 as stated: ValidateConfig on settings that lack a required key        *)
(* returns isValid = false with the message "require <missing key>", and     *)
(* does not dial.                                                            *)
C12_RequireInMsg ==
  (valOut.called /\ LacksRequired(valIn)) =>
     /\ ~valOut.isValid
     /\ valOut.msg = <<"require", FirstLacking(valIn)>>
     /\ ~valOut.dialed

(* C12 amended: ValidateConfig on settings that lack a required key returns  *)
(* isValid = false, an empty message and the error "require <missing key>",  *)
(* and does not dial.                                                        *)
C12_RequireInErr ==
  (valOut.called /\ LacksRequired(valIn)) =>
     /\ ~valOut.isValid
     /\ valOut.msg = <<>>
     /\ valOut.err = <<"require", FirstLacking(valIn)>>
     /\ ~valOut.dialed

C12_Witness ==
  /\ valOut.called
  /\ valIn = {<<HOSTNAME, "smtp.example.com">>, <<HOSTPORT, <<"5", "8", "7">>>>, <<USERNAME, "u">>}
  /\ valOut.err = <<"require", PASSWORD>>
  /\ valOut.msg = <<>>

(* C13: a unit received by a worker whose connection is open is sent on that *)
(* connection (the worker holds it at its send with the open flag set, or    *)
(* gomail.Send has been called with it); once the send has succeeded, true   *)
(* has been reported on the unit's result channel.                           *)
C13_OpenWorkerSends ==
  \A u \in Callers :
    deqOpen[u] =>
      \/ \E w \in Workers : cur[w] = u /\ wpc[w] = "send" /\ open[w]
      \/ sendCount[u] >= 1 /\ (sentOk[u] => TrueSignalled(u))

(* C14: after a failed idle close the worker is still open exactly while it  *)
(* has had at most 2 close failures in a row; the next failure in a row      *)
(* forces it closed, and failures before a successful close do not count.    *)
C14_CloseFailureBound ==
  \A w \in Workers :
    closeRun[w] > 0 => (open[w] <=> closeRun[w] <= CloseFailedLimit)

(* C15: a worker never has more than one connection that it dialed and that  *)
(* has not been closed.                                                      *)
C15_OneLiveConnection ==
  \A w \in Workers : live[w] <= 1

(* C16: a worker whose dial fails (it leaves its dial with no new            *)
(* connection) reports false on the unit's result channel, keeps its open    *)
(* flag unset, makes no gomail.Send call and is back at its select.          *)
C16_DialFailure ==
  [][\A w \in Workers :
       (wpc[w] = "dial" /\ wpc'[w] # "dial" /\ live'[w] = live[w]) =>
          /\ ~open[w] /\ ~open'[w]
          /\ result'[cur[w]] = <<FALSE>>
          /\ signals'[cur[w]] = signals[cur[w]] + 1
          /\ sendCount' = sendCount
          /\ wpc'[w] = "select"]_vars

C16_Witness ==
  /\ gen = 1
  /\ ~dialSucceeded
  /\ \E u \in Callers, w \in Workers :
       /\ handled[u] /\ signals[u] = 1 /\ sendCount[u] = 0 /\ FalseSignalled(u)
       /\ ~open[w] /\ wpc[w] = "dial" /\ cur[w] \notin {0, u}

(* C17: a worker whose gomail.Send fails has its open flag unset and false   *)
(* reported on the unit's result channel, and a worker with its open flag    *)
(* unset that receives a unit goes to dial.                                  *)
C17_SendFailure ==
  /\ [][\A w \in Workers :
          (wpc[w] = "send" /\ wpc'[w] # "send" /\ ~sentOk'[cur[w]]) =>
             /\ ~open'[w]
             /\ result'[cur[w]] = <<FALSE>>
             /\ signals'[cur[w]] = signals[cur[w]] + 1]_vars
  /\ [][\A w \in Workers :
          (wpc[w] = "select" /\ ~open[w] /\ cur'[w] # cur[w]) => wpc'[w] = "dial"]_vars

C17_Witness ==
  /\ gen = 1
  /\ \E u \in Callers, w \in Workers :
       /\ handled[u] /\ sendCount[u] = 1 /\ ~sentOk[u] /\ FalseSignalled(u)
       /\ ~open[w] /\ wpc[w] = "dial" /\ cur[w] \notin {0, u}

(* C18: no worker is ever blocked on a result channel, and a worker that     *)
(* reports on a unit whose Send has already returned puts the value into the *)
(* channel's buffer and is back at its select.                               *)
C18_TimeoutNeverWedges ==
  /\ [](\A w \in Workers : wpc[w] # "blocked")
  /\ [][\A w \in Workers :
          (/\ wpc[w] \in {"dial", "send"}
           /\ pc[cur[w]] = "done"
           /\ signals'[cur[w]] = signals[cur[w]] + 1) =>
             /\ Len(result'[cur[w]]) = ResultCap
             /\ wpc'[w] = "select"]_vars

C18_Witness ==
  /\ gen = 1
  /\ lateReport
  /\ \E u \in Callers, w \in Workers :
       /\ ret[u] = "send error, time out" /\ signals[u] = 1 /\ handled[u]
       /\ wpc[w] = "dial" /\ cur[w] \notin {0, u}

(* C19: a worker whose stop channel has been closed eventually leaves its    *)
(* loop (or the process has died), and the step that leaves the loop changes *)
(* neither its open flag nor its connections nor its failure counter.        *)
C19_StopExits ==
  /\ \A w \in Workers : (stopC[w] = "closed") ~> (wpc[w] = "exited" \/ panicked)
  /\ [][\A w \in Workers :
          (wpc[w] # "exited" /\ wpc'[w] = "exited") =>
             /\ open'[w] = open[w]
             /\ live'[w] = live[w]
             /\ closeFailedTimes'[w] = closeFailedTimes[w]]_vars

C19_Witness ==
  \E w \in Workers : wpc[w] = "exited" /\ open[w] /\ live[w] >= 1 /\ ~panicked

(* C20: once a later worker set has been started, no worker of an earlier    *)
(* set receives a unit from msgChan.                                         *)
C20_NoStaleDequeue == ~staleDeq

====
